---- MODULE Spec2Model ----
(***************************************************************************)
(* BioFlow: the differential-expression pipeline of app/utils.py           *)
(* (normalize_columns, validate_data, clean_data, compute_diff) and the    *)
(* job API of app/app.py (upload_csv, delete_job, enforce_user_quota).     *)
(*                                                                         *)
(* Tables are pandas DataFrames: a list of column names (duplicates are    *)
(* possible after a rename) and a list of rows, each with its index label  *)
(* and one cell per column.  DataFrames are objects: the functions work    *)
(* on a heap of tables and hand references around, so that an in-place     *)
(* assignment (df[col] = ...) changes the object every reference sees.     *)
(*                                                                         *)
(* Numbers: ctrl/treat are whole numbers; eps = 1e-9 = 1/EPS_INV, so       *)
(* (treat+eps)/(ctrl+eps) is the exact fraction                            *)
(* (treat*EPS_INV+1)/(ctrl*EPS_INV+1).  log2 is kept symbolic (log2 of a   *)
(* positive fraction) and compared exactly.                                *)
(***************************************************************************)
EXTENDS Integers, Sequences, FiniteSets, TLC

VARIABLES
    heap,       \* the DataFrame objects: heap[r] is the table behind reference r
    stage,      \* the caller's position in the pipeline
    norm,       \* reference returned by normalize_columns(input)
    norm2,      \* reference returned by normalize_columns(norm)
    reports,    \* the reports returned by the calls of validate_data(input)
    cleaned,    \* outcome of clean_data(input): [err, r]
    diff,       \* outcome of compute_diff(cleaned): [err, r, summary, pre]
    jobs,       \* the committed rows of table jobs, oldest created_at first
    files,      \* the files under uploads/ and results/: path -> content
    clock,      \* the wall clock, in seconds
    reqs,       \* the upload_csv requests in progress, per worker slot
    nextJob,    \* the number of Job rows created so far
    uploads,    \* the number of upload_csv requests so far
    deletes,    \* the number of delete_job requests so far
    lastResp,   \* the response to the latest request other than upload_csv
    client      \* the Streamlit client whose polling loop is followed

pipeVars == <<heap, stage, norm, norm2, reports, cleaned, diff>>

jobVars == <<jobs, files, clock, reqs, nextJob, uploads, deletes, lastResp, client>>

vars == <<heap, stage, norm, norm2, reports, cleaned, diff,
          jobs, files, clock, reqs, nextJob, uploads, deletes, lastResp, client>>

----------------------------------------------------------------------------
(* Bounds of the model *)

MaxRows == 2

MaxUploads == 2

MaxDeletes == 1

MaxClock == 1

\* the jobs stored when the requests of SpecAccess and SpecPoll begin
AccessPreload == 2

\* the polls of the client that are counted
MaxPolls == 2

----------------------------------------------------------------------------
(* Cells *)

NA == [k |-> "na", s |-> "", n |-> 0, d |-> 1]
Str(x) == [k |-> "str", s |-> x, n |-> 0, d |-> 1]
Num(x) == [k |-> "num", s |-> "", n |-> x, d |-> 1]
Rat(a, b) == [k |-> "num", s |-> "", n |-> a, d |-> b]
PINF == [k |-> "pinf", s |-> "", n |-> 0, d |-> 1]
NINF == [k |-> "ninf", s |-> "", n |-> 0, d |-> 1]
Log2Of(a, b) == [k |-> "log2", s |-> "", n |-> a, d |-> b]

isna(c) == c.k = "na"

Range(f) == {f[i] : i \in DOMAIN f}

----------------------------------------------------------------------------
(* Constants of app/utils.py *)

REQUIRED_COLUMNS == <<"gene", "ctrl", "treat">>

ALIAS_KEYS == <<"gene", "ctrl", "treat">>

\* a variant of the alias table in which "ctrl" is also listed under treat
COLUMN_ALIASES_typo ==
    [gene  |-> <<"gene", "gene_id", "symbol", "Gene", "GENE">>,
     ctrl  |-> <<"ctrl", "control", "CTRL", "Control", "ctl">>,
     treat |-> <<"treat", "treatment", "TREAT", "Treatment", "trt", "ctrl">>]

COLUMN_ALIASES ==
    [gene  |-> <<"gene", "gene_id", "symbol", "Gene", "GENE">>,
     ctrl  |-> <<"ctrl", "control", "CTRL", "Control", "ctl">>,
     treat |-> <<"treat", "treatment", "TREAT", "Treatment", "trt">>]

EPS_INV == 1000000000

----------------------------------------------------------------------------
(* The heap of DataFrames *)

Alloc(h, t) == [h |-> Append(h, t), r |-> Len(h) + 1]

\* a variant of copy that hands back the same object (no copy made)
copy_alias(h, r) == [h |-> h, r |-> r]

copy(h, r) == Alloc(h, h[r])

\* the heap once a call has returned: the n objects that existed before it
\* and the objects rs it returned; its other temporaries are unreachable
Collect(h, n, rs) ==
    [h |-> SubSeq(h, 1, n) \o [i \in DOMAIN rs |-> h[rs[i]]],
     r |-> [i \in DOMAIN rs |-> IF rs[i] <= n THEN rs[i] ELSE n + i]]

----------------------------------------------------------------------------
(* Column access *)

Positions(t, name) == {i \in DOMAIN t.cols : t.cols[i] = name}

HasCol(t, name) == name \in Range(t.cols)

IsDuplicated(t, name) == Cardinality(Positions(t, name)) > 1

ThePos(t, name) == CHOOSE i \in Positions(t, name) : TRUE

Col(t, name) == [i \in DOMAIN t.rows |-> t.rows[i].cells[ThePos(t, name)]]

SetCol(t, name, values) ==
    IF HasCol(t, name)
    THEN [t EXCEPT !.rows = [i \in DOMAIN t.rows |->
              [t.rows[i] EXCEPT !.cells[ThePos(t, name)] = values[i]]]]
    ELSE [cols |-> Append(t.cols, name),
          rows |-> [i \in DOMAIN t.rows |->
              [t.rows[i] EXCEPT !.cells = Append(@, values[i])]]]

RECURSIVE PositionsOf(_, _)
PositionsOf(t, names) ==
    IF names = <<>> THEN <<>>
    ELSE SelectSeq([i \in DOMAIN t.cols |-> i], LAMBDA i : t.cols[i] = Head(names))
         \o PositionsOf(t, Tail(names))

Take(t, names) ==
    LET ps == PositionsOf(t, names)
    IN  [cols |-> [j \in DOMAIN ps |-> t.cols[ps[j]]],
         rows |-> [i \in DOMAIN t.rows |->
             [idx |-> t.rows[i].idx,
              cells |-> [j \in DOMAIN ps |-> t.rows[i].cells[ps[j]]]]]]

----------------------------------------------------------------------------
(* normalize_columns *)

RECURSIVE col_map_loop(_, _, _)
col_map_loop(cols, k, m) ==
    IF k > Len(ALIAS_KEYS) THEN m
    ELSE LET std == ALIAS_KEYS[k]
             hit == {c \in Range(cols) : c \in Range(COLUMN_ALIASES[std])}
         IN  col_map_loop(cols, k + 1,
                 [c \in DOMAIN m \cup hit |-> IF c \in hit THEN std ELSE m[c]])

col_map(cols) == col_map_loop(cols, 1, [c \in {} |-> ""])

rename(t, m) ==
    [t EXCEPT !.cols = [i \in DOMAIN t.cols |->
        IF t.cols[i] \in DOMAIN m THEN m[t.cols[i]] ELSE t.cols[i]]]

normalize_columns(h, df) ==
    LET c == copy(h, df)
        m == col_map(c.h[c.r].cols)
    IN  IF DOMAIN m # {} THEN Alloc(c.h, rename(c.h[c.r], m)) ELSE c

----------------------------------------------------------------------------
(* pd.to_numeric *)

NUMERIC_TEXT == ("0" :> 0) @@ ("1" :> 1) @@ ("2" :> 2)

parses(c) == c.k # "str" \/ c.s \in DOMAIN NUMERIC_TEXT

to_numeric_coerce(c) ==
    IF c.k # "str" THEN c
    ELSE IF c.s \in DOMAIN NUMERIC_TEXT THEN Num(NUMERIC_TEXT[c.s]) ELSE NA

\* pd.to_numeric(df[col]) raises: df[col] is a DataFrame when the name is
\* duplicated (TypeError), or some value cannot be parsed (ValueError)
to_numeric_raises(t, col) ==
    \/ IsDuplicated(t, col)
    \/ \E i \in DOMAIN t.rows : ~parses(t.rows[i].cells[ThePos(t, col)])

----------------------------------------------------------------------------
(* validate_data *)

LastPos(t, name) ==
    CHOOSE i \in Positions(t, name) : \A j \in Positions(t, name) : j <= i

na_counts(t) ==
    [c \in Range(t.cols) |->
        Cardinality({i \in DOMAIN t.rows : isna(t.rows[i].cells[LastPos(t, c)])})]

missing_columns(t) == SelectSeq(REQUIRED_COLUMNS, LAMBDA c : ~HasCol(t, c))

numeric_issue(t) ==
    \E col \in {"ctrl", "treat"} : HasCol(t, col) /\ to_numeric_raises(t, col)

\* a variant of validate_data that inspects df itself, not df_norm
validate_data_raw(h, df) ==
    [h |-> h, err |-> "",
     report |-> [row_count |-> Len(h[df].rows),
                 na_counts |-> na_counts(h[df]),
                 missing_columns |-> missing_columns(h[df]),
                 numeric_issue |-> numeric_issue(h[df])]]

\* err is the exception that leaves validate_data: pd.to_numeric, the one
\* call that raises on these tables, stands inside try/except (lines 74-77)
validate_data(h, df) ==
    LET nr == normalize_columns(h, df)
        df_norm == nr.h[nr.r]
    IN  [h |-> nr.h, err |-> "",
         report |-> [row_count |-> Len(df_norm.rows),
                     na_counts |-> na_counts(df_norm),
                     missing_columns |-> missing_columns(df_norm),
                     numeric_issue |-> numeric_issue(df_norm)]]

----------------------------------------------------------------------------
(* clean_data *)

dropna_all(t) ==
    [t EXCEPT !.rows = SelectSeq(t.rows,
        LAMBDA r : \E j \in DOMAIN r.cells : ~isna(r.cells[j]))]

dropna_subset(t, subset) ==
    [t EXCEPT !.rows = SelectSeq(t.rows,
        LAMBDA r : \A j \in DOMAIN t.cols :
            t.cols[j] \in Range(subset) => ~isna(r.cells[j]))]

SameKey(t, a, b, name) ==
    \A j \in Positions(t, name) : a.cells[j] = b.cells[j]

\* a variant of drop_duplicates with keep="last"
drop_duplicates_keep_last(t, name) ==
    [t EXCEPT !.rows =
        LET keep == {i \in DOMAIN t.rows :
                        \A j \in DOMAIN t.rows :
                            j > i => ~SameKey(t, t.rows[i], t.rows[j], name)}
        IN  SelectSeq(t.rows, LAMBDA r : \E i \in keep : t.rows[i] = r)]

drop_duplicates(t, name) ==
    [t EXCEPT !.rows =
        LET keep == {i \in DOMAIN t.rows :
                        \A j \in DOMAIN t.rows :
                            j < i => ~SameKey(t, t.rows[i], t.rows[j], name)}
        IN  SelectSeq(t.rows, LAMBDA r : \E i \in keep : t.rows[i] = r)]

\* the loop of lines 97-99 on the object behind r: [h, err]
RECURSIVE coerce_loop(_, _, _)
coerce_loop(h, r, todo) ==
    IF todo = <<>> THEN [h |-> h, err |-> ""]
    ELSE LET col == Head(todo)
             t == h[r]
         IN  IF ~HasCol(t, col) THEN coerce_loop(h, r, Tail(todo))
             ELSE IF IsDuplicated(t, col) THEN [h |-> h, err |-> "TypeError"]
             ELSE coerce_loop(
                    [h EXCEPT ![r] = SetCol(t, col,
                        [i \in DOMAIN t.rows |-> to_numeric_coerce(Col(t, col)[i])])],
                    r, Tail(todo))

clean_data(h, df) ==
    LET nr == normalize_columns(h, df)
        cols == SelectSeq(REQUIRED_COLUMNS, LAMBDA c : HasCol(nr.h[nr.r], c))
        sel == IF cols # <<>>
               THEN LET a == Alloc(nr.h, Take(nr.h[nr.r], cols)) IN copy(a.h, a.r)
               ELSE nr
        co == coerce_loop(sel.h, sel.r, <<"ctrl", "treat">>)
    IN  IF co.err # "" THEN [h |-> co.h, r |-> 0, err |-> co.err]
        ELSE LET t1 == dropna_all(co.h[sel.r])
                 t2 == dropna_subset(t1,
                          SelectSeq(REQUIRED_COLUMNS, LAMBDA c : HasCol(t1, c)))
                 t3 == IF HasCol(t2, "gene") THEN drop_duplicates(t2, "gene") ELSE t2
                 out == Alloc(co.h, t3)
             IN  [h |-> out.h, r |-> out.r, err |-> ""]

----------------------------------------------------------------------------
(* compute_diff: the arithmetic *)

\* a / b in floating point: x/0 is +-inf, 0/0 is NaN, nothing raises
Div(a, b) ==
    IF b = 0 THEN (IF a > 0 THEN PINF ELSE IF a < 0 THEN NINF ELSE NA)
    ELSE IF b < 0 THEN Rat(-a, -b) ELSE Rat(a, b)

\* treat - ctrl
delta_of(ctrl, treat) ==
    IF isna(ctrl) \/ isna(treat) THEN NA ELSE Num(treat.n - ctrl.n)

\* (treat + eps) / (ctrl + eps), eps = 1/EPS_INV
fold_change_of(ctrl, treat) ==
    IF isna(ctrl) \/ isna(treat) THEN NA
    ELSE Div(treat.n * EPS_INV + 1, ctrl.n * EPS_INV + 1)

\* np.log2: NaN below zero, -inf at zero
log2(x) ==
    CASE x.k = "na" -> NA
      [] x.k = "pinf" -> PINF
      [] x.k = "ninf" -> NA
      [] x.k = "num" -> IF x.n < 0 THEN NA
                        ELSE IF x.n = 0 THEN NINF
                        ELSE Log2Of(x.n, x.d)

\* log2FC >= thr with thr = 1.0: the fraction is at least 2 (n >= 2d,
\* written n - d >= d); false for NaN
ge_thr(x) == x.k = "pinf" \/ (x.k = "log2" /\ x.n - x.d >= x.d)

\* log2FC <= -thr: the fraction is at most 1/2; false for NaN
le_neg_thr(x) == x.k = "ninf" \/ (x.k = "log2" /\ x.d - x.n >= x.n)

\* a variant of the labelling in which a NaN log2FC is labelled "down"
direction_nan_down(x) ==
    IF ge_thr(x) THEN Str("up")
    ELSE IF x.k = "log2" /\ ~le_neg_thr(x) THEN Str("unchanged")
    ELSE Str("down")

\* lines 134-136: "unchanged", then "up" where >= thr, then "down" where <= -thr
direction_of(x) ==
    LET d0 == Str("unchanged")
        d1 == IF ge_thr(x) THEN Str("up") ELSE d0
    IN  IF le_neg_thr(x) THEN Str("down") ELSE d1

----------------------------------------------------------------------------
(* compute_diff: the sort by |log2FC| *)

\* a/b < c/d for a, c >= 0 and b, d > 0, by continued fractions (no products)
RECURSIVE FracLess(_, _, _, _)
FracLess(a, b, c, d) ==
    LET q1 == a \div b
        q2 == c \div d
        r1 == a % b
        r2 == c % d
    IN  IF q1 # q2 THEN q1 < q2
        ELSE IF r2 = 0 THEN FALSE
        ELSE IF r1 = 0 THEN TRUE
        ELSE FracLess(d, r2, b, r1)

\* np.abs of a log2FC value
np_abs(x) ==
    CASE x.k = "log2" -> IF x.n >= x.d THEN x ELSE Log2Of(x.d, x.n)
      [] x.k = "ninf" -> PINF
      [] OTHER -> x

\* x < y for two values of np.abs(log2FC) that are not NaN
KeyLess(x, y) ==
    IF x.k = "pinf" THEN FALSE
    ELSE IF y.k = "pinf" THEN TRUE
    ELSE FracLess(x.n, x.d, y.n, y.d)

Perms(n) == {p \in [1..n -> 1..n] : \A i, j \in 1..n : p[i] = p[j] => i = j}

\* the row orders a stable descending sort gives: NaN keys last, equal keys
\* and NaN keys in their original order
StableOrders(key) ==
    {p \in Perms(Len(key)) : \A i, j \in 1..Len(key) : i < j =>
        LET x == key[p[i]]
            y == key[p[j]]
        IN  /\ isna(x) => isna(y) /\ p[i] < p[j]
            /\ ~isna(x) /\ ~isna(y) =>
                 \/ KeyLess(y, x)
                 \/ ~KeyLess(x, y) /\ p[i] < p[j]}

\* the row orders sort_values(kind="quicksort", ascending=False,
\* na_position="last") can give: NaN keys last in their original order, the
\* others by descending key, equal keys in any order
SortOrders(key) ==
    {p \in Perms(Len(key)) : \A i, j \in 1..Len(key) : i < j =>
        LET x == key[p[i]]
            y == key[p[j]]
        IN  /\ isna(x) => isna(y) /\ p[i] < p[j]
            /\ ~isna(x) /\ ~isna(y) => ~KeyLess(x, y)}

sort_key(t) == [i \in DOMAIN t.rows |-> np_abs(Col(t, "log2FC")[i])]

reorder(t, p) == [t EXCEPT !.rows = [i \in DOMAIN t.rows |-> t.rows[p[i]]]]

----------------------------------------------------------------------------
(* compute_diff *)

count_direction(t, label) ==
    Cardinality({i \in DOMAIN t.rows : Col(t, "direction")[i] = Str(label)})

\* a variant of the summary whose total counts only the changed rows
summary_changed(t) ==
    [total |-> Len(t.rows),
     up |-> Cardinality({i \in DOMAIN t.rows : Col(t, "direction")[i] # Str("unchanged")}),
     down |-> count_direction(t, "down")]

\* the numbers of the summary text: total, up, down
summary_of(t) ==
    [total |-> Len(t.rows),
     up |-> count_direction(t, "up"),
     down |-> count_direction(t, "down")]

\* lines 128-136 on the table t: the four new columns
with_columns(t) ==
    LET rows == DOMAIN t.rows
        t1 == SetCol(t, "delta",
                [i \in rows |-> delta_of(Col(t, "ctrl")[i], Col(t, "treat")[i])])
        t2 == SetCol(t1, "fold_change",
                [i \in rows |-> fold_change_of(Col(t1, "ctrl")[i], Col(t1, "treat")[i])])
        t3 == SetCol(t2, "log2FC",
                [i \in rows |-> log2(Col(t2, "fold_change")[i])])
    IN  SetCol(t3, "direction",
                [i \in rows |-> direction_of(Col(t3, "log2FC")[i])])

\* the orders the sort of compute_diff(df) may return
diff_orders(h, df) ==
    IF ~HasCol(h[df], "ctrl") \/ ~HasCol(h[df], "treat") THEN {<<>>}
    ELSE UNION {SortOrders(key) : key \in {sort_key(with_columns(h[df]))}}

\* compute_diff(df) when its sort returns the row order p
compute_diff(h, df, p) ==
    LET c == copy(h, df)
    IN  IF ~HasCol(c.h[c.r], "ctrl") \/ ~HasCol(c.h[c.r], "treat")
        THEN [h |-> c.h, r |-> 0, summary |-> summary_of([cols |-> <<>>, rows |-> <<>>]),
              err |-> "ValueError", pre |-> c.r]
        ELSE LET h1 == [c.h EXCEPT ![c.r] = with_columns(@)]
                 out == Alloc(h1, reorder(h1[c.r], p))
             IN  [h |-> out.h, r |-> out.r, summary |-> summary_of(out.h[out.r]),
                  err |-> "", pre |-> c.r]

----------------------------------------------------------------------------
(* The tables a caller passes in: a header and, per column, the cells that *)
(* may stand in it; up to MaxRows rows, index labels 0, 1, ...             *)

Families ==
    { [cols |-> <<"gene", "ctrl", "treat">>,
       doms |-> << {NA, Str("A"), Str("B")},
                   {NA, Str("x"), Num(1)},
                   {NA, Str("2"), Num(2)} >>],
      [cols |-> <<"Gene", "control", "trt">>,
       doms |-> << {Str("A"), Str("B")},
                   {Num(-1), Num(0), Num(1), Num(2)},
                   {Num(-1), Num(0), Num(1), Num(2)} >>],
      [cols |-> <<"gene", "ctrl", "control", "treat">>,
       doms |-> << {Str("A"), Str("B")}, {Num(1)}, {NA, Num(2)}, {Num(2)} >>],
      [cols |-> <<"gene", "symbol", "ctrl", "treat">>,
       doms |-> << {Str("A")}, {Str("A"), Str("B")}, {Num(1)}, {Num(0), Num(2)} >>],
      [cols |-> <<"gene", "ctl", "note">>,
       doms |-> << {NA, Str("A")}, {Str("x"), Num(1)}, {NA, Str("n")} >>],
      [cols |-> <<"id", "note">>,
       doms |-> << {NA, Str("A")}, {NA, Str("n")} >> ] }

CellRows(f) ==
    {c \in [DOMAIN f.cols -> UNION Range(f.doms)] :
        \A j \in DOMAIN f.cols : c[j] \in f.doms[j]}

MakeTable(f, n, cs) ==
    [cols |-> f.cols,
     rows |-> [i \in 1..n |-> [idx |-> i - 1, cells |-> cs[i]]]]

InputRef == 1

NoCall == [err |-> "none", r |-> 0]

NoDiff == [err |-> "none", r |-> 0,
           summary |-> [total |-> 0, up |-> 0, down |-> 0], pre |-> 0]

----------------------------------------------------------------------------
(* The job API of app/app.py: records, paths and files *)

MAX_JOBS_PER_USER == 20

Users == {1, 2}

Slots == {1, 2}

NoPath == [dir |-> "", stem |-> "", ts |-> 0]

\* os.path.join("uploads", file.filename)
UploadPath(name) == [dir |-> "uploads", stem |-> name, ts |-> 0]

\* results/result_{ts}.csv and results/volcano_{ts}.png, ts to the second
ResultPath(ts) == [dir |-> "results", stem |-> "result", ts |-> ts]

PlotPath(ts) == [dir |-> "results", stem |-> "volcano", ts |-> ts]

NoSummary == [total |-> -1, up |-> -1, down |-> -1]

\* Job(job_id, status="queued", upload_path, user_id); created_at orders
\* the rows as they were inserted
NewJob(id, user, path) ==
    [job_id |-> id, status |-> "queued", summary |-> NoSummary,
     upload_path |-> path, result_path |-> NoPath, plot_path |-> NoPath,
     created_at |-> id, user_id |-> user]

NoRequest ==
    [pc |-> "idle", user |-> 0, name |-> "", job |-> 0, rows0 |-> -1,
     missing |-> <<>>, cleanRows |-> -1, cleanCols |-> <<>>, calls |-> <<>>,
     wrote |-> {}, summary |-> NoSummary, ts |-> 0, resp |-> 0]

NoContent == [data |-> "", job |-> 0]

\* the answer to a request op of user about job: the status code, the Job
\* rows the body was made from and the file content sent
Response(op, user, job, status, rows, body) ==
    [op |-> op, user |-> user, job |-> job, status |-> status,
     rows |-> rows, body |-> body]

NoResponse == Response("", 0, 0, 0, <<>>, NoContent)

\* the client before its upload: no loop running
NoClient == [pc |-> "off", user |-> 0, job |-> 0, polls |-> 0, seen |-> ""]

JobsIdle ==
    /\ jobs = <<>>
    /\ files = [q \in {} |-> 0]
    /\ clock = 0
    /\ reqs = [s \in Slots |-> NoRequest]
    /\ nextJob = 0
    /\ uploads = 0
    /\ deletes = 0
    /\ lastResp = NoResponse
    /\ client = NoClient

PipeIdle ==
    /\ heap = <<>>
    /\ stage = "off"
    /\ norm = 0
    /\ norm2 = 0
    /\ reports = <<>>
    /\ cleaned = NoCall
    /\ diff = NoDiff

Init ==
    /\ \E f \in Families, n \in 0..MaxRows :
          \E cs \in [1..n -> CellRows(f)] : heap = <<MakeTable(f, n, cs)>>
    /\ stage = "loaded"
    /\ norm = 0
    /\ norm2 = 0
    /\ reports = <<>>
    /\ cleaned = NoCall
    /\ diff = NoDiff
    /\ JobsIdle

\* normalize_columns(input)
Normalize ==
    /\ stage = "loaded"
    /\ \E res \in {normalize_columns(heap, InputRef)} :
       \E g \in {Collect(res.h, Len(heap), <<res.r>>)} :
          /\ heap' = g.h
          /\ norm' = g.r[1]
    /\ stage' = "normalized"
    /\ UNCHANGED <<norm2, reports, cleaned, diff>>
    /\ UNCHANGED jobVars

\* normalize_columns(normalize_columns(input))
NormalizeAgain ==
    /\ stage = "normalized"
    /\ \E res \in {normalize_columns(heap, norm)} :
       \E g \in {Collect(res.h, Len(heap), <<res.r>>)} :
          /\ heap' = g.h
          /\ norm2' = g.r[1]
    /\ stage' = "renormalized"
    /\ UNCHANGED <<norm, reports, cleaned, diff>>
    /\ UNCHANGED jobVars

\* validate_data(input), called twice
Validate ==
    /\ stage \in {"renormalized", "validated"}
    /\ \E res \in {validate_data(heap, InputRef)} :
          /\ heap' = Collect(res.h, Len(heap), <<>>).h
          /\ reports' = IF res.err = "" THEN Append(reports, res.report) ELSE reports
          /\ stage' = IF res.err # "" THEN "validate_raised"
                      ELSE IF stage = "renormalized" THEN "validated"
                      ELSE "revalidated"
    /\ UNCHANGED <<norm, norm2, cleaned, diff>>
    /\ UNCHANGED jobVars

\* clean_data(input)
Clean ==
    /\ stage = "revalidated"
    /\ \E res \in {clean_data(heap, InputRef)} :
       \E g \in {Collect(res.h, Len(heap), IF res.err = "" THEN <<res.r>> ELSE <<>>)} :
          /\ heap' = g.h
          /\ cleaned' = [err |-> res.err, r |-> IF res.err = "" THEN g.r[1] ELSE 0]
          /\ stage' = IF res.err = "" THEN "cleaned" ELSE "clean_raised"
    /\ UNCHANGED <<norm, norm2, reports, diff>>
    /\ UNCHANGED jobVars

\* compute_diff(clean_data(input)); the table before its sort is kept for
\* comparison
ComputeDiff ==
    /\ stage = "cleaned"
    /\ \E p \in diff_orders(heap, cleaned.r) :
       \E res \in {compute_diff(heap, cleaned.r, p)} :
       \E g \in {Collect(res.h, Len(heap),
                    IF res.err = "" THEN <<res.pre, res.r>> ELSE <<>>)} :
          /\ heap' = g.h
          /\ diff' = [err |-> res.err,
                      r |-> IF res.err = "" THEN g.r[2] ELSE 0,
                      summary |-> res.summary,
                      pre |-> IF res.err = "" THEN g.r[1] ELSE 0]
          /\ stage' = IF res.err = "" THEN "done" ELSE "diff_raised"
    /\ UNCHANGED <<norm, norm2, reports, cleaned>>
    /\ UNCHANGED jobVars

Next ==
    \/ Normalize
    \/ NormalizeAgain
    \/ Validate
    \/ Clean
    \/ ComputeDiff

Spec == Init /\ [][Next]_vars

----------------------------------------------------------------------------
(* Properties of the pipeline, checked under Spec *)

Input == heap[InputRef]

Result == heap[diff.r]

PreSort == heap[diff.pre]

Up == Str("up")
Down == Str("down")
Unchanged == Str("unchanged")

\* C1: in every row of compute_diff's result, direction is "up" exactly when
\* log2FC >= 1.0, "down" exactly when log2FC <= -1.0 and "unchanged"
\* otherwise; a row whose log2FC is NaN is "unchanged".
C1_DirectionByThreshold ==
    stage = "done" =>
        \A i \in DOMAIN Result.rows :
            LET x == Col(Result, "log2FC")[i]
                d == Col(Result, "direction")[i]
            IN  /\ d \in {Up, Down, Unchanged}
                /\ (d = Up) <=> ge_thr(x)
                /\ (d = Down) <=> le_neg_thr(x)
                /\ isna(x) => d = Unchanged

\* a result with a NaN log2FC row (labelled) and an "up" row
C1_Witness ==
    /\ stage = "done"
    /\ \E i, j \in DOMAIN Result.rows :
          /\ isna(Col(Result, "log2FC")[i])
          /\ Col(Result, "direction")[j] = Up

\* C2: with eps = 1e-9 a row with ctrl = 1.0 and treat = 2.0 is labelled "up".
C2_DoubleIsUp ==
    stage = "done" =>
        \A i \in DOMAIN Result.rows :
            (Col(Result, "ctrl")[i] = Num(1) /\ Col(Result, "treat")[i] = Num(2))
                => Col(Result, "direction")[i] = Up

\* C3: the result is the input rows in descending |log2FC| order, rows of
\* equal |log2FC| in their input order (a stable sort).
C3_StableDescending ==
    stage = "done" =>
        \E key \in {sort_key(PreSort)} :
            \E p \in StableOrders(key) : Result = reorder(PreSort, p)

\* C4: the summary's total is the row count of the result (and of the input
\* of compute_diff), up and down count the rows so labelled, before as
\* after the sort, up + down <= total, and zero rows give zero counts.
C4_SummaryCounts ==
    stage = "done" =>
        /\ diff.err = ""
        /\ diff.summary.total = Len(Result.rows)
        /\ diff.summary.total = Len(heap[cleaned.r].rows)
        /\ diff.summary.up = Cardinality({i \in DOMAIN Result.rows :
                                 Col(Result, "direction")[i] = Up})
        /\ diff.summary.down = Cardinality({i \in DOMAIN Result.rows :
                                 Col(Result, "direction")[i] = Down})
        /\ diff.summary.up = Cardinality({i \in DOMAIN PreSort.rows :
                                 Col(PreSort, "direction")[i] = Up})
        /\ diff.summary.down = Cardinality({i \in DOMAIN PreSort.rows :
                                 Col(PreSort, "direction")[i] = Down})
        /\ diff.summary.up + diff.summary.down <= diff.summary.total
        /\ Len(heap[cleaned.r].rows) = 0 =>
              diff.summary = [total |-> 0, up |-> 0, down |-> 0]

\* a summary of two rows, one up and one down
C4_Witness ==
    /\ stage = "done"
    /\ diff.summary = [total |-> 2, up |-> 1, down |-> 1]

IsSubsequence(a, b) ==
    \E f \in [DOMAIN a -> DOMAIN b] :
        /\ \A i, j \in DOMAIN a : i < j => f[i] < f[j]
        /\ \A i \in DOMAIN a : a[i] = b[f[i]]

Idx(t) == [i \in DOMAIN t.rows |-> t.rows[i].idx]

\* C5: for an input with gene, ctrl and treat after normalization,
\* clean_data returns a table whose rows all have a gene and numeric ctrl
\* and treat, no gene twice, rows a subsequence of the input's.
C5_CleanInvariants ==
    (stage \in {"cleaned", "clean_raised", "done"}
       /\ missing_columns(heap[norm]) = <<>>) =>
        /\ cleaned.err = ""
        /\ LET t == heap[cleaned.r]
           IN  /\ \A i \in DOMAIN t.rows : \A j \in DOMAIN t.cols :
                     /\ ~isna(t.rows[i].cells[j])
                     /\ t.cols[j] \in {"ctrl", "treat"} => t.rows[i].cells[j].k = "num"
               /\ \A i, j \in DOMAIN t.rows :
                     Col(t, "gene")[i] = Col(t, "gene")[j] => i = j
               /\ IsSubsequence(Idx(t), Idx(Input))
               /\ Len(t.rows) <= Len(Input.rows)

\* the input columns that normalize_columns renames to std
AliasedTo(t, std) == {j \in DOMAIN t.cols : t.cols[j] \in Range(COLUMN_ALIASES[std])}

\* C8: when two input columns alias to one canonical name, normalize_columns
\* yields a single column of that name with the later column's values, and
\* clean_data runs on the table without raising.
C8_LastWins ==
    \A std \in Range(REQUIRED_COLUMNS) :
        Cardinality(AliasedTo(Input, std)) = 2 =>
            /\ stage # "loaded" =>
                  /\ Cardinality(Positions(heap[norm], std)) = 1
                  /\ LET last == CHOOSE j \in AliasedTo(Input, std) :
                                    \A k \in AliasedTo(Input, std) : k <= j
                     IN  \A i \in DOMAIN Input.rows :
                            Col(heap[norm], std)[i] = Input.rows[i].cells[last]
            /\ stage # "clean_raised"

\* C9: normalize_columns(normalize_columns(t)) has the columns, column
\* order and cells of normalize_columns(t), and as many rows as t.
C9_NormalizeIdempotent ==
    norm2 # 0 =>
        /\ heap[norm2] = heap[norm]
        /\ Len(heap[norm2].rows) = Len(Input.rows)

\* a table with an alias name and a foreign name, normalized twice
C9_Witness ==
    /\ norm2 # 0
    /\ Input.cols = <<"gene", "ctl", "note">>
    /\ heap[norm].cols = <<"gene", "ctrl", "note">>
    /\ Len(Input.rows) > 0

\* C10: the four functions leave the table they are given unchanged (no
\* call changes any table that existed before it), and two calls of
\* validate_data on one table return the same report.
C10_InputsUntouched ==
    [][ /\ \A r \in DOMAIN heap : heap'[r] = heap[r]
        /\ Len(reports') = 2 => reports'[1] = reports'[2] ]_vars

\* all four functions have run, clean_data having parsed a text cell in its
\* own copy and compute_diff having added its columns to its own copy
C10_Witness ==
    /\ stage = "done"
    /\ Len(reports) = 2
    /\ \E i \in DOMAIN Input.rows : Input.rows[i].cells[3] = Str("2")
    /\ Len(Result.rows) = 2
    /\ Len(Result.cols) > Len(heap[cleaned.r].cols)

\* C11: validate_data raises on no table, and its missing_columns lists, in
\* the order gene, ctrl, treat, exactly the canonical names that are not
\* columns of the normalized table; it is empty iff all three are columns.
C11_MissingColumns ==
    /\ stage # "validate_raised"
    /\ stage \notin {"loaded", "normalized", "renormalized"} =>
          /\ Len(reports) >= 1
          /\ \A k \in DOMAIN reports :
                LET m == reports[k].missing_columns
                IN  /\ m = SelectSeq(<<"gene", "ctrl", "treat">>,
                                     LAMBDA c : c \notin Range(heap[norm].cols))
                    /\ \A c \in {"gene", "ctrl", "treat"} :
                          c \in Range(m) <=> AliasedTo(Input, c) = {}
                    /\ m = <<>> <=>
                          \A c \in {"gene", "ctrl", "treat"} :
                              c \in Range(heap[norm].cols)

\* a report on a table whose ctl column holds text (the ValueError of
\* pd.to_numeric is caught) and that lacks treat
C11_Witness ==
    /\ stage = "validated"
    /\ Input.cols = <<"gene", "ctl", "note">>
    /\ \E i \in DOMAIN Input.rows : Input.rows[i].cells[2] = Str("x")
    /\ reports[1].missing_columns = <<"treat">>
    /\ reports[1].numeric_issue

\* row i of the normalized table has every required value: a gene, and a
\* ctrl and a treat that are numbers or text that parses as a number
FullyValid(t, i) ==
    \A j \in DOMAIN t.cols :
        t.cols[j] \in Range(REQUIRED_COLUMNS) =>
            /\ ~isna(t.rows[i].cells[j])
            /\ t.cols[j] \in {"ctrl", "treat"} =>
                  ~isna(to_numeric_coerce(t.rows[i].cells[j]))

\* the index labels clean_data is to retain: per gene value, the first
\* fully valid row
FirstValidPerGene(t) ==
    {t.rows[i].idx : i \in {i \in DOMAIN t.rows :
        /\ FullyValid(t, i)
        /\ \A j \in DOMAIN t.rows :
              (j < i /\ FullyValid(t, j)) => Col(t, "gene")[j] # Col(t, "gene")[i]}}

\* C14: clean_data drops the rows with a missing or non-numeric required
\* value before it deduplicates by gene: of the rows of one gene it retains
\* the first fully valid one, and a gene is absent from the output only if
\* none of its rows is fully valid.
C14_DropBeforeDedup ==
    (stage \in {"cleaned", "clean_raised", "done"}
       /\ missing_columns(heap[norm]) = <<>>) =>
        /\ cleaned.err = ""
        /\ Range(Idx(heap[cleaned.r])) = FirstValidPerGene(heap[norm])

NoCollision == \A std \in Range(REQUIRED_COLUMNS) : Cardinality(AliasedTo(Input, std)) <= 1

\* C14 on the tables in which no two columns alias to one canonical name:
\* there it holds
C14_DropBeforeDedupNoCollision ==
    (stage \in {"cleaned", "clean_raised", "done"}
       /\ missing_columns(heap[norm]) = <<>> /\ NoCollision) =>
        /\ cleaned.err = ""
        /\ Range(Idx(heap[cleaned.r])) = FirstValidPerGene(heap[norm])

\* an invalid first row of gene A followed by a valid one, which is retained
C14_LaterValidKept ==
    /\ stage = "cleaned"
    /\ Input.cols = <<"gene", "ctrl", "treat">>
    /\ Len(Input.rows) = 2
    /\ Input.rows[1].cells = <<Str("A"), Str("x"), Num(2)>>
    /\ Input.rows[2].cells = <<Str("A"), Num(1), Str("2")>>
    /\ Idx(heap[cleaned.r]) = <<1>>

----------------------------------------------------------------------------
(* The files a client uploads *)

FileNames ==
    {"good.csv", "header.csv", "nogene.csv", "text.csv", "twoctrl.csv",
     "blank.csv", "notes.txt"}

\* file.filename.lower().endswith(".csv")
IsCsvName(name) == name # "notes.txt"

TableOf(cols, rows) ==
    [cols |-> cols, rows |-> [i \in DOMAIN rows |-> [idx |-> i - 1, cells |-> rows[i]]]]

\* what pd.read_csv makes of each file; blank.csv holds no bytes at all
CsvTable(name) ==
    CASE name = "good.csv" ->
            TableOf(<<"gene", "ctrl", "treat">>,
                    << <<Str("A"), Num(0), Num(1)>>, <<Str("B"), Num(1), Num(0)>> >>)
      [] name = "header.csv" -> TableOf(<<"gene", "ctrl", "treat">>, <<>>)
      [] name = "nogene.csv" -> TableOf(<<"ctrl", "treat">>, << <<Num(1), Num(2)>> >>)
      [] name = "text.csv" ->
            TableOf(<<"gene", "ctrl", "treat">>, << <<Str("A"), Str("x"), Num(1)>> >>)
      [] name = "twoctrl.csv" ->
            TableOf(<<"gene", "ctrl", "control", "treat">>,
                    << <<Str("A"), Num(1), Num(2), Num(2)>> >>)
      [] OTHER -> TableOf(<<>>, <<>>)

Write(fs, path, content) ==
    [q \in DOMAIN fs \cup {path} |-> IF q = path THEN content ELSE fs[q]]

Remove(fs, paths) == [q \in DOMAIN fs \ paths |-> fs[q]]

\* pd.read_csv(path): raises when the file is gone or holds no columns
load_data(fs, path) ==
    IF path \notin DOMAIN fs THEN [err |-> "FileNotFoundError", t |-> TableOf(<<>>, <<>>)]
    ELSE IF fs[path].data = "blank.csv"
    THEN [err |-> "EmptyDataError", t |-> TableOf(<<>>, <<>>)]
    ELSE [err |-> "", t |-> CsvTable(fs[path].data)]

----------------------------------------------------------------------------
(* upload_csv, lines 207-236: load, validate, clean, compute_diff.  Each   *)
(* outcome records where the try block went (gated: a 400 is about to be   *)
(* raised; raised: an exception reached line 254; computed: the result and *)
(* the plot are written), the calls made and what they returned.           *)

Outcome(pc, rows0, missing, cleanRows, cleanCols, calls, summary) ==
    [pc |-> pc, rows0 |-> rows0, missing |-> missing, cleanRows |-> cleanRows,
     cleanCols |-> cleanCols, calls |-> calls, summary |-> summary]

\* lines 220-227, c the outcome of clean_data
AfterClean(rows0, c) ==
    LET calls == <<"load", "validate", "clean">>
    IN  IF c.err # ""
        THEN {Outcome("raised", rows0, <<>>, -1, <<>>, calls, NoSummary)}
        ELSE IF Len(c.h[c.r].rows) = 0
        THEN {Outcome("gated", rows0, <<>>, 0, c.h[c.r].cols, calls, NoSummary)}
        ELSE {Outcome(IF d.err = "" THEN "computed" ELSE "raised", rows0, <<>>,
                      Len(c.h[c.r].rows), c.h[c.r].cols,
                      Append(calls, "compute_diff"),
                      IF d.err = "" THEN d.summary ELSE NoSummary) :
                d \in {compute_diff(c.h, c.r, p) : p \in diff_orders(c.h, c.r)}}

\* lines 214-220, v the outcome of validate_data
AfterValidate(rows0, v) ==
    IF v.report.missing_columns # <<>>
    THEN {Outcome("gated", rows0, v.report.missing_columns, -1, <<>>,
                  <<"load", "validate">>, NoSummary)}
    ELSE UNION {AfterClean(rows0, c) : c \in {clean_data(v.h, 1)}}

\* lines 208-214, ld the outcome of load_data
AfterLoad(ld) ==
    IF ld.err # ""
    THEN {Outcome("raised", -1, <<>>, -1, <<>>, <<"load">>, NoSummary)}
    ELSE IF Len(ld.t.rows) = 0
    THEN {Outcome("gated", 0, <<>>, -1, <<>>, <<"load">>, NoSummary)}
    ELSE UNION {AfterValidate(Len(ld.t.rows), v) : v \in {validate_data(<<ld.t>>, 1)}}

Analyses(fs, path) == UNION {AfterLoad(ld) : ld \in {load_data(fs, path)}}

----------------------------------------------------------------------------
(* enforce_user_quota and _delete_job_files *)

Reverse(q) == [i \in DOMAIN q |-> q[Len(q) + 1 - i]]

\* os.remove of the job's result, plot and upload file, where they exist
delete_job_files(fs, job) ==
    Remove(fs, {job.result_path, job.plot_path, job.upload_path} \ {NoPath})

RECURSIVE delete_all_files(_, _)
delete_all_files(fs, victims) ==
    IF victims = <<>> THEN fs
    ELSE delete_all_files(delete_job_files(fs, Head(victims)), Tail(victims))

\* a variant of the slice that keeps one job more
quota_victims_keep_one_more(js, user_id, keep) ==
    LET q == Reverse(SelectSeq(js, LAMBDA j : j.user_id = user_id))
    IN  SubSeq(q, keep + 2, Len(q))

\* the rows jobs[keep:] of the user's jobs, newest first
quota_victims(js, user_id, keep) ==
    LET q == Reverse(SelectSeq(js, LAMBDA j : j.user_id = user_id))
    IN  SubSeq(q, keep + 1, Len(q))

enforce_user_quota(js, fs, user_id, keep) ==
    LET victims == quota_victims(js, user_id, keep)
    IN  [jobs |-> SelectSeq(js, LAMBDA j : \A k \in DOMAIN victims : victims[k] # j),
         files |-> delete_all_files(fs, victims)]

----------------------------------------------------------------------------
(* The server.  on_startup keeps the rows and files earlier runs left: it  *)
(* starts empty, or with MAX_JOBS_PER_USER finished jobs, the oldest of    *)
(* user 2 and the others of user 1, each an upload of good.csv analysed in *)
(* a second of its own.                                                    *)

Preloads == {0, MAX_JOBS_PER_USER}

SeedSummary ==
    (CHOOSE a \in AfterLoad([err |-> "", t |-> CsvTable("good.csv")]) : TRUE).summary

SeedJob(i, n) ==
    [NewJob(i, IF i = 1 THEN 2 ELSE 1, UploadPath("good.csv")) EXCEPT
        !.status = "finished", !.summary = SeedSummary,
        !.result_path = ResultPath(i - 1 - n), !.plot_path = PlotPath(i - 1 - n)]

SeedFiles(n) ==
    [q \in (IF n = 0 THEN {} ELSE {UploadPath("good.csv")})
            \cup {ResultPath(i - 1 - n) : i \in 1..n}
            \cup {PlotPath(i - 1 - n) : i \in 1..n} |->
        IF q.dir = "uploads" THEN [data |-> "good.csv", job |-> 0]
        ELSE [data |-> q.stem, job |-> q.ts + 1 + n]]

\* the server with n jobs stored and no request yet
Started(n) ==
    /\ PipeIdle
    /\ jobs = [i \in 1..n |-> SeedJob(i, n)]
    /\ files = SeedFiles(n)
    /\ nextJob = n
    /\ clock = 0
    /\ reqs = [s \in Slots |-> NoRequest]
    /\ uploads = 0
    /\ deletes = 0
    /\ lastResp = NoResponse
    /\ client = NoClient

InitJobs == \E n \in Preloads : Started(n)

\* upload_csv, lines 193-204: the extension check, the upload file, the Job
\* row committed with status "queued"
StartUpload(s, u, name) ==
    /\ reqs[s].pc = "idle"
    /\ uploads < MaxUploads
    /\ uploads' = uploads + 1
    /\ IF ~IsCsvName(name)
       THEN /\ reqs' = [reqs EXCEPT ![s] =
                  [NoRequest EXCEPT !.pc = "done", !.user = u, !.name = name,
                                    !.resp = 400]]
            /\ UNCHANGED <<jobs, files, nextJob>>
       ELSE /\ files' = Write(files, UploadPath(name), [data |-> name, job |-> 0])
            /\ nextJob' = nextJob + 1
            /\ jobs' = Append(jobs, NewJob(nextJob + 1, u, UploadPath(name)))
            /\ reqs' = [reqs EXCEPT ![s] =
                  [NoRequest EXCEPT !.pc = "queued", !.user = u, !.name = name,
                                    !.job = nextJob + 1]]
    /\ UNCHANGED <<clock, deletes, lastResp>>
    /\ UNCHANGED <<pipeVars, client>>

\* upload_csv, lines 207-236: the analysis of the file now at upload_path;
\* a computed result is written with its plot under the current second
Analyze(s) ==
    /\ reqs[s].pc = "queued"
    /\ \E a \in Analyses(files, UploadPath(reqs[s].name)) :
          /\ reqs' = [reqs EXCEPT ![s] =
                [@ EXCEPT !.pc = a.pc, !.rows0 = a.rows0, !.missing = a.missing,
                          !.cleanRows = a.cleanRows, !.cleanCols = a.cleanCols,
                          !.calls = a.calls, !.summary = a.summary, !.ts = clock,
                          !.wrote = IF a.pc = "computed"
                                    THEN {ResultPath(clock), PlotPath(clock)} ELSE {}]]
          /\ files' = IF a.pc = "computed"
                      THEN Write(Write(files, ResultPath(clock),
                                       [data |-> "result", job |-> reqs[s].job]),
                                 PlotPath(clock), [data |-> "volcano", job |-> reqs[s].job])
                      ELSE files
    /\ UNCHANGED <<jobs, clock, nextJob, uploads, deletes, lastResp>>
    /\ UNCHANGED <<pipeVars, client>>

JobExists(id) == \E k \in DOMAIN jobs : jobs[k].job_id = id

TheJob(id) == jobs[CHOOSE k \in DOMAIN jobs : jobs[k].job_id = id]

SetJob(id, j) ==
    [k \in DOMAIN jobs |-> IF jobs[k].job_id = id THEN j ELSE jobs[k]]

\* a variant of lines 239-243 that leaves plot_path unset
Finished_without_plot(j, r) ==
    [j EXCEPT !.status = "finished", !.summary = r.summary,
              !.result_path = ResultPath(r.ts)]

\* lines 239-242: the row of a job whose analysis r is complete
Finished(j, r) ==
    [j EXCEPT !.status = "finished", !.summary = r.summary,
              !.result_path = ResultPath(r.ts), !.plot_path = PlotPath(r.ts)]

\* job.status = "failed" (lines 210, 216, 222, 255)
Failed(j) == [j EXCEPT !.status = "failed"]

\* upload_csv, the commit of the job's status: "failed" and a 400 at a gate
\* (lines 210-212, 216-218, 222-224), "failed" and a 500 after an exception
\* (lines 254-257), "finished" with summary and paths (lines 239-243).  The
\* UPDATE of a row that a concurrent request deleted raises inside the try
\* block; the handler of line 254 commits the same row again, which raises
\* again, and the request ends with a 500.
CommitStatus(s) ==
    /\ reqs[s].pc \in {"gated", "raised", "computed"}
    /\ LET r == reqs[s]
       IN  IF ~JobExists(r.job)
           THEN /\ reqs' = [reqs EXCEPT ![s] = [@ EXCEPT !.pc = "done", !.resp = 500]]
                /\ UNCHANGED jobs
           ELSE IF r.pc = "computed"
           THEN /\ jobs' = SetJob(r.job, Finished(TheJob(r.job), r))
                /\ reqs' = [reqs EXCEPT ![s] = [@ EXCEPT !.pc = "quota"]]
           ELSE /\ jobs' = SetJob(r.job, Failed(TheJob(r.job)))
                /\ reqs' = [reqs EXCEPT ![s] =
                      [@ EXCEPT !.pc = "done",
                                !.resp = IF r.pc = "gated" THEN 400 ELSE 500]]
    /\ UNCHANGED <<files, clock, nextJob, uploads, deletes, lastResp>>
    /\ UNCHANGED <<pipeVars, client>>

\* upload_csv, lines 246-249: enforce_user_quota, then the 200 response
Quota(s) ==
    /\ reqs[s].pc = "quota"
    /\ \E q \in {enforce_user_quota(jobs, files, reqs[s].user, MAX_JOBS_PER_USER)} :
          /\ jobs' = q.jobs
          /\ files' = q.files
    /\ reqs' = [reqs EXCEPT ![s] = [@ EXCEPT !.pc = "done", !.resp = 200]]
    /\ UNCHANGED <<clock, nextJob, uploads, deletes, lastResp>>
    /\ UNCHANGED <<pipeVars, client>>

\* the response of upload_csv has gone out
Return(s) ==
    /\ reqs[s].pc = "done"
    /\ reqs' = [reqs EXCEPT ![s] = NoRequest]
    /\ UNCHANGED <<jobs, files, clock, nextJob, uploads, deletes, lastResp>>
    /\ UNCHANGED <<pipeVars, client>>

\* the job ids a delete_job request names: none, the oldest, the two latest
DeleteTargets == {0, 1, nextJob - 1, nextJob}

\* delete_job, lines 329-345
DeleteJob(u, id) ==
    /\ deletes < MaxDeletes
    /\ deletes' = deletes + 1
    /\ IF \E k \in DOMAIN jobs : jobs[k].job_id = id /\ jobs[k].user_id = u
       THEN LET j == jobs[CHOOSE k \in DOMAIN jobs :
                            jobs[k].job_id = id /\ jobs[k].user_id = u]
            IN  /\ files' = delete_job_files(files, j)
                /\ jobs' = SelectSeq(jobs, LAMBDA x : x # j)
                /\ lastResp' = Response("delete_job", u, id, 204, <<j>>, NoContent)
       ELSE /\ lastResp' = Response("delete_job", u, id, 404, <<>>, NoContent)
            /\ UNCHANGED <<jobs, files>>
    /\ UNCHANGED <<clock, reqs, nextJob, uploads>>
    /\ UNCHANGED <<pipeVars, client>>

\* a second passes
Tick ==
    /\ clock < MaxClock
    /\ clock' = clock + 1
    /\ UNCHANGED <<jobs, files, reqs, nextJob, uploads, deletes, lastResp>>
    /\ UNCHANGED <<pipeVars, client>>

NextJobs ==
    \/ \E s \in Slots, u \in Users, name \in FileNames : StartUpload(s, u, name)
    \/ \E s \in Slots : Analyze(s)
    \/ \E s \in Slots : CommitStatus(s)
    \/ \E s \in Slots : Quota(s)
    \/ \E s \in Slots : Return(s)
    \/ \E u \in Users, id \in DeleteTargets : DeleteJob(u, id)
    \/ Tick

SpecJobs == InitJobs /\ [][NextJobs]_vars

----------------------------------------------------------------------------
(* The job API's claims *)

STAGES == <<"load", "validate", "clean", "compute_diff">>

Called(r, f) == \E i \in DOMAIN r.calls : r.calls[i] = f

\* a request that one of the three gates of upload_csv stopped
Gated(r) == r.rows0 = 0 \/ r.missing # <<>> \/ r.cleanRows = 0

StoredStatus(js, id) ==
    IF \E k \in DOMAIN js : js[k].job_id = id
    THEN js[CHOOSE k \in DOMAIN js : js[k].job_id = id].status
    ELSE "none"

\* C6: upload_csv calls load, validate, clean, compute_diff in this order;
\* clean_data is never called on a table of zero rows or with missing
\* columns reported, compute_diff never on a cleaned table of zero rows or
\* without ctrl/treat; a request stopped at a gate ends with a 400, its
\* job stored as "failed", and no result or plot written.
C6_GatesHonoured ==
    [][\A s \in Slots :
          LET r == reqs'[s]
          IN  /\ r.calls = SubSeq(STAGES, 1, Len(r.calls))
              /\ Called(r, "clean") => r.rows0 > 0 /\ r.missing = <<>>
              /\ Called(r, "compute_diff") =>
                    /\ r.cleanRows > 0
                    /\ \A c \in {"ctrl", "treat"} : c \in Range(r.cleanCols)
              /\ Gated(r) => r.wrote = {}
              /\ Gated(r) /\ reqs[s].pc # "done" /\ r.pc = "done" =>
                    /\ r.resp = 400
                    /\ StoredStatus(jobs', r.job) = "failed"]_vars

\* C6 where no other request removes the job's row before its status is
\* committed: the gates, the 400 and the stored "failed" all hold
C6_GatesHonouredRowKept ==
    [][\A s \in Slots :
          LET r == reqs'[s]
          IN  /\ r.calls = SubSeq(STAGES, 1, Len(r.calls))
              /\ Called(r, "clean") => r.rows0 > 0 /\ r.missing = <<>>
              /\ Called(r, "compute_diff") =>
                    /\ r.cleanRows > 0
                    /\ \A c \in {"ctrl", "treat"} : c \in Range(r.cleanCols)
              /\ Gated(r) => r.wrote = {}
              /\ Gated(r) /\ reqs[s].pc # "done" /\ r.pc = "done" /\ JobExists(r.job) =>
                    /\ r.resp = 400
                    /\ StoredStatus(jobs', r.job) = "failed"]_vars

JobsOf(u) == {k \in DOMAIN jobs : jobs[k].user_id = u}

Quiescent(u) == \A s \in Slots : reqs[s].pc = "idle" \/ reqs[s].user # u

\* C7: whenever no upload request of a user is in progress, at most
\* MAX_JOBS_PER_USER Job records are stored for that user.
C7_RetentionCap ==
    \A u \in Users : Quiescent(u) => Cardinality(JobsOf(u)) <= MAX_JOBS_PER_USER

\* C7 for users whose uploads all finished: the cap holds for them
C7_CapAfterFinishedUploads ==
    \A u \in Users :
        /\ Quiescent(u)
        /\ \A k \in JobsOf(u) : jobs[k].status = "finished"
        => Cardinality(JobsOf(u)) <= MAX_JOBS_PER_USER

JobPaths(j) == {j.result_path, j.plot_path, j.upload_path} \ {NoPath}

\* the jobs of user u among js that are among the keep most recently created
NewestOf(js, u, keep) ==
    {j \in Range(js) :
        /\ j.user_id = u
        /\ Cardinality({k \in Range(js) :
                k.user_id = u /\ k.created_at > j.created_at}) < keep}

\* C13: enforce_user_quota(user, keep) retains exactly the user's keep most
\* recently created jobs and deletes every older job of the user with its
\* result, plot and upload files; it leaves the jobs of other users as they
\* are, and deletes nothing when the user has at most keep jobs.
C13_QuotaExact ==
    [][\A s \in Slots :
          (reqs[s].pc = "quota" /\ reqs'[s].pc = "done") =>
              LET u == reqs[s].user
                  kept == NewestOf(jobs, u, MAX_JOBS_PER_USER)
              IN  /\ {j \in Range(jobs') : j.user_id = u} = kept
                  /\ SelectSeq(jobs', LAMBDA j : j.user_id # u)
                        = SelectSeq(jobs, LAMBDA j : j.user_id # u)
                  /\ \A j \in Range(jobs) :
                        (j.user_id = u /\ j \notin kept) =>
                            JobPaths(j) \cap DOMAIN files' = {}
                  /\ Cardinality(JobsOf(u)) <= MAX_JOBS_PER_USER =>
                        jobs' = jobs /\ files' = files]_vars

\* user 1, with MAX_JOBS_PER_USER - 1 jobs stored, has uploaded twice; the
\* quota step of the second upload has deleted the user's oldest job with
\* its result, while the older job of user 2 is still stored
C13_Witness ==
    /\ \E s \in Slots : reqs[s].pc = "done" /\ reqs[s].resp = 200 /\ reqs[s].user = 1
    /\ deletes = 0
    /\ nextJob = MAX_JOBS_PER_USER + 2
    /\ Cardinality(JobsOf(1)) = MAX_JOBS_PER_USER
    /\ JobExists(1)
    /\ ~JobExists(2)
    /\ ResultPath(1 - MAX_JOBS_PER_USER) \notin DOMAIN files

\* what upload_csv wrote for job j at path q
WrittenFor(j, q) ==
    IF q = j.upload_path THEN [data |-> q.stem, job |-> 0]
    ELSE [data |-> q.stem, job |-> j.job_id]

\* C17: deleting a job (delete_job, quota eviction) removes only that job's
\* record and files: every path a remaining "finished" job refers to exists
\* and holds what was written for that job.
C17_FilesOfFinishedJobsKept ==
    \A k \in DOMAIN jobs :
        jobs[k].status = "finished" =>
            \A q \in JobPaths(jobs[k]) :
                q \in DOMAIN files /\ files[q] = WrittenFor(jobs[k], q)

\* C15: a Job record that upload_csv created and that exists when the
\* request returns is "finished" or "failed", never "queued"; a "finished"
\* job has its summary, result_path and plot_path, a "failed" job has none
\* of them.
C15_TerminalStatus ==
    [][/\ \A s \in Slots :
            (reqs[s].pc # "done" /\ reqs'[s].pc = "done" /\ reqs'[s].job # 0) =>
                StoredStatus(jobs', reqs'[s].job) \in {"finished", "failed", "none"}
       /\ \A j \in Range(jobs') :
            /\ j.status = "finished" =>
                  j.summary # NoSummary /\ j.result_path # NoPath /\ j.plot_path # NoPath
            /\ j.status = "failed" =>
                  j.summary = NoSummary /\ j.result_path = NoPath /\ j.plot_path = NoPath]_vars

\* one request has returned 200 with its job stored as finished, another
\* has returned 500 with its job stored as failed
C15_Witness ==
    \E s, t \in Slots :
        /\ reqs[s].pc = "done" /\ reqs[s].resp = 200
        /\ StoredStatus(jobs, reqs[s].job) = "finished"
        /\ reqs[t].pc = "done" /\ reqs[t].resp = 500
        /\ StoredStatus(jobs, reqs[t].job) = "failed"

----------------------------------------------------------------------------
(* my_jobs, get_job and get_result *)

Mine(js, u) == SelectSeq(js, LAMBDA j : j.user_id = u)

\* GET /jobs: the user's rows, newest first
my_jobs(js, u) == Response("my_jobs", u, 0, 200, Reverse(Mine(js, u)), NoContent)

\* a variant of get_job whose query does not filter by user_id
get_job_any_user(js, fs, u, id, download, kind) ==
    LET found == SelectSeq(js, LAMBDA j : j.job_id = id)
    IN  IF found = <<>> THEN Response("get_job", u, id, 404, <<>>, NoContent)
        ELSE IF ~download
        THEN Response("get_job", u, id, 200, <<found[1]>>, NoContent)
        ELSE LET target == IF kind = "result" THEN found[1].result_path
                           ELSE IF kind = "plot" THEN found[1].plot_path
                           ELSE NoPath
             IN  IF target = NoPath \/ target \notin DOMAIN fs
                 THEN Response("get_job", u, id, 404, <<>>, NoContent)
                 ELSE Response("get_job", u, id, 200, <<found[1]>>, fs[target])

\* GET /jobs/{job_id}?download=&kind=
get_job(js, fs, u, id, download, kind) ==
    LET found == SelectSeq(js, LAMBDA j : j.job_id = id /\ j.user_id = u)
    IN  IF found = <<>> THEN Response("get_job", u, id, 404, <<>>, NoContent)
        ELSE IF ~download
        THEN Response("get_job", u, id, 200, <<found[1]>>, NoContent)
        ELSE LET target == IF kind = "result" THEN found[1].result_path
                           ELSE IF kind = "plot" THEN found[1].plot_path
                           ELSE NoPath
             IN  IF target = NoPath \/ target \notin DOMAIN fs
                 THEN Response("get_job", u, id, 404, <<>>, NoContent)
                 ELSE Response("get_job", u, id, 200, <<found[1]>>, fs[target])

\* GET /results/{filename}: the first result or plot path of the user's
\* jobs with this base name; every such path lies in results/
get_result(js, fs, u, filename) ==
    LET hits == SelectSeq(Mine(js, u), LAMBDA j :
                    \/ (j.result_path # NoPath /\ j.result_path = filename)
                    \/ (j.plot_path # NoPath /\ j.plot_path = filename))
    IN  IF hits = <<>> \/ filename \notin DOMAIN fs
        THEN Response("get_result", u, 0, 404, <<>>, NoContent)
        ELSE Response("get_result", u, 0, 200, <<hits[1]>>, fs[filename])

\* the file names a get_result request asks for
ResultNames == {ResultPath(ts) : ts \in -AccessPreload..0} \cup {PlotPath(0)}

MyJobs(u) ==
    /\ lastResp' = my_jobs(jobs, u)
    /\ UNCHANGED <<jobs, files, clock, reqs, nextJob, uploads, deletes>>
    /\ UNCHANGED <<pipeVars, client>>

GetJob(u, id, download, kind) ==
    /\ lastResp' = get_job(jobs, files, u, id, download, kind)
    /\ UNCHANGED <<jobs, files, clock, reqs, nextJob, uploads, deletes>>
    /\ UNCHANGED <<pipeVars, client>>

GetResult(u, filename) ==
    /\ lastResp' = get_result(jobs, files, u, filename)
    /\ UNCHANGED <<jobs, files, clock, reqs, nextJob, uploads, deletes>>
    /\ UNCHANGED <<pipeVars, client>>

\* the API with its read requests, the uploads one after the other
NextAccess ==
    \/ \E u \in Users, name \in {"good.csv", "header.csv"} : StartUpload(1, u, name)
    \/ Analyze(1)
    \/ CommitStatus(1)
    \/ Quota(1)
    \/ Return(1)
    \/ \E u \in Users, id \in DeleteTargets : DeleteJob(u, id)
    \/ Tick
    \/ \E u \in Users : MyJobs(u)
    \/ \E u \in Users, id \in DeleteTargets, download \in BOOLEAN,
          kind \in {"", "result", "plot"} : GetJob(u, id, download, kind)
    \/ \E u \in Users, filename \in ResultNames : GetResult(u, filename)

SpecAccess == Started(AccessPreload) /\ [][NextAccess]_vars

\* a request has been answered in this step
Answered == lastResp' # lastResp \/ deletes' # deletes

\* C16: my_jobs, get_job, delete_job and get_result return and delete only
\* jobs of the user who asks; a get_job or delete_job that names a job of
\* another user, or no job, answers 404 and changes no Job record and no
\* file.
C16_OwnerOnly ==
    [][Answered =>
          LET a == lastResp'
          IN  /\ \A j \in Range(a.rows) : j.user_id = a.user
              /\ \A j \in Range(jobs) : j \notin Range(jobs') => j.user_id = a.user
              /\ a.op \in {"my_jobs", "get_job", "get_result"} =>
                    jobs' = jobs /\ files' = files
              /\ (/\ a.op \in {"get_job", "delete_job"}
                  /\ ~\E j \in Range(jobs) : j.job_id = a.job /\ j.user_id = a.user) =>
                    a.status = 404 /\ jobs' = jobs /\ files' = files]_vars

\* user 1 has asked for the stored job of user 2 and got a 404
C16_Witness ==
    /\ lastResp.op = "get_job"
    /\ lastResp.user = 1
    /\ lastResp.status = 404
    /\ \E j \in Range(jobs) : j.job_id = lastResp.job /\ j.user_id = 2

\* the upload request of slot t has committed its queued job and has not
\* yet committed "finished" or "failed"
InProgress(t) == reqs[t].pc \in {"queued", "gated", "raised", "computed"}

\* the files of the job of the request in slot t: its upload, and the result
\* and plot once written
FilesOfRequest(t) == {UploadPath(reqs[t].name)} \cup reqs[t].wrote

\* C12: with concurrent uploads of one user, the quota eviction of one
\* request deletes neither the Job record nor a file of a job whose own
\* upload request is still in progress.
C12_EvictionSparesJobsInProgress ==
    [][\A s, t \in Slots :
          (/\ reqs[s].pc = "quota" /\ reqs'[s].pc = "done"
           /\ t # s /\ InProgress(t) /\ reqs[t].user = reqs[s].user) =>
              /\ JobExists(reqs[t].job) =>
                    \E j \in Range(jobs') : j.job_id = reqs[t].job
              /\ FilesOfRequest(t) \cap DOMAIN files \subseteq DOMAIN files']_vars

----------------------------------------------------------------------------
(* The Streamlit client: upload, then poll GET /jobs/{job_id} *)

\* a variant of the loop's exit test that waits for a status "done"
TERMINAL_STATUSES_done == {"done", "failed"}

\* status in ("finished", "failed")
TERMINAL_STATUSES == {"finished", "failed"}

\* the upload response of slot s is OK: the client reads its job_id and
\* enters the loop
ReturnToClient(s) ==
    /\ reqs[s].pc = "done"
    /\ reqs[s].resp = 200
    /\ client.pc = "off"
    /\ client' = [pc |-> "polling", user |-> reqs[s].user, job |-> reqs[s].job,
                  polls |-> 0, seen |-> ""]
    /\ reqs' = [reqs EXCEPT ![s] = NoRequest]
    /\ UNCHANGED <<jobs, files, clock, nextJob, uploads, deletes, lastResp>>
    /\ UNCHANGED pipeVars

\* one round of the loop: a response that is not OK or a terminal status
\* ends it, any other status sends it to sleep and round again
Poll ==
    /\ client.pc = "polling"
    /\ \E jr \in {get_job(jobs, files, client.user, client.job, FALSE, "")} :
       \E n \in {IF client.polls < MaxPolls THEN client.polls + 1 ELSE client.polls} :
          client' = IF jr.status # 200
                    THEN [client EXCEPT !.pc = "exited", !.polls = n, !.seen = "error"]
                    ELSE IF jr.rows[1].status \in TERMINAL_STATUSES
                    THEN [client EXCEPT !.pc = "exited", !.polls = n,
                                        !.seen = jr.rows[1].status]
                    ELSE [client EXCEPT !.polls = n, !.seen = jr.rows[1].status]
    /\ UNCHANGED <<jobs, files, clock, reqs, nextJob, uploads, deletes, lastResp>>
    /\ UNCHANGED pipeVars

NextPoll ==
    \/ \E s \in Slots, u \in Users, name \in {"good.csv", "header.csv"} :
          StartUpload(s, u, name)
    \/ \E s \in Slots : Analyze(s)
    \/ \E s \in Slots : CommitStatus(s)
    \/ \E s \in Slots : Quota(s)
    \/ \E s \in Slots : Return(s)
    \/ \E s \in Slots : ReturnToClient(s)
    \/ \E u \in Users, id \in DeleteTargets : DeleteJob(u, id)
    \/ Tick
    \/ Poll

\* the API answers each poll, and the loop goes on to the next round
SpecPoll == Started(AccessPreload) /\ [][NextPoll]_vars /\ WF_vars(Poll)

\* C18: the polling loop a client starts after an OK upload response ends:
\* the job it polls is "finished" or "failed" or gone from the moment the
\* response arrives, so the first poll leaves the loop, and the loop never
\* stays on status "queued".
C18_PollingTerminates ==
    /\ [](client.pc = "polling" =>
            StoredStatus(jobs, client.job) \in {"finished", "failed", "none"})
    /\ [](client.pc = "exited" => client.polls = 1 /\ client.seen # "queued")
    /\ (client.pc = "polling" ~> client.pc = "exited")

\* the loop has ended on its first poll, which showed the job finished
C18_Witness ==
    /\ client.pc = "exited"
    /\ client.polls = 1
    /\ client.seen = "finished"

====
